---- MODULE Spec2Model ----
(***************************************************************************)
(* Model of sabhiram/logictree: boolean logic trees of leaves and AND/OR   *)
(* nodes that are combined into one text/template expression.              *)
(*                                                                         *)
(* A tree is a value: a leaf [kind, expression] or a node [kind, op,       *)
(* children].  The caller builds trees bottom-up (NewLeaf, NewNode) and    *)
(* then calls Combine / GetTemplate on the tree built last.                *)
(***************************************************************************)
EXTENDS Integers, Sequences, FiniteSets, TLC

\* ---------------------------------------------------------------- bounds
\* Largest number of tree vertices (leaves and nodes) the caller holds.
MaxSize == 5
\* Largest number of children handed to one NewNode call.
MaxChildren == 4

\* Raw leaf expressions the caller passes to NewLeaf.
LeafExprs == {"", "a"}

\* ------------------------------------------------------------- constants
OperatorAnd == 0
OperatorOr == 1
\* Operator is a Go int: one value outside the two named constants.
Operators == {OperatorAnd, OperatorOr, 2}

Nil == "nil"
ErrEmptyNode == "empty node cannot be merged"
NoPanic == "none"
PanicInvalidOperator == "invalid operator type"

\* ------------------------------------------------------------- operators
\* Operator.String falling back to "and" for a value it does not know.
StringDefaultAnd(o) ==
  CASE o = OperatorOr -> [s |-> "or", panic |-> NoPanic]
    [] OTHER          -> [s |-> "and", panic |-> NoPanic]

\* Operator.String: the lowercase name, or a panic for any other value.
String(o) ==
  CASE o = OperatorAnd -> [s |-> "and", panic |-> NoPanic]
    [] o = OperatorOr  -> [s |-> "or", panic |-> NoPanic]
    [] OTHER           -> [s |-> "", panic |-> PanicInvalidOperator]

\* fmt.Sprintf("%s (%s) (%s)", name, a, b)
Sprintf3(name, a, b) == name \o " (" \o a \o ") (" \o b \o ")"

RECURSIVE Apply(_, _)
\* Apply folding from the left: the last expression peeled off.
ApplyLeftFold(o, exprs) ==
  CASE Len(exprs) = 0 -> [str |-> "", panic |-> NoPanic]
    [] Len(exprs) = 1 -> [str |-> exprs[1], panic |-> NoPanic]
    [] OTHER ->
         IF String(o).panic # NoPanic
           THEN [str |-> "", panic |-> String(o).panic]
           ELSE [str |-> Sprintf3(String(o).s,
                                  Apply(o, SubSeq(exprs, 1,
                                                  Len(exprs) - 1)).str,
                                  exprs[Len(exprs)]),
                 panic |-> NoPanic]

\* Apply with the two operands of the binary case exchanged.
ApplySwapped(o, exprs) ==
  CASE Len(exprs) = 0 -> [str |-> "", panic |-> NoPanic]
    [] Len(exprs) = 1 -> [str |-> exprs[1], panic |-> NoPanic]
    [] Len(exprs) = 2 ->
         IF String(o).panic # NoPanic
           THEN [str |-> "", panic |-> String(o).panic]
           ELSE [str |-> Sprintf3(String(o).s, exprs[2], exprs[1]),
                 panic |-> NoPanic]
    [] OTHER ->
         IF String(o).panic # NoPanic
           THEN [str |-> "", panic |-> String(o).panic]
           ELSE LET rest == Apply(o, Tail(exprs))
                IN  IF rest.panic # NoPanic
                      THEN [str |-> "", panic |-> rest.panic]
                      ELSE [str |-> Sprintf3(String(o).s, exprs[1], rest.str),
                            panic |-> NoPanic]

\* Apply naming the operator over a single operand too.
ApplyWrapSingle(o, exprs) ==
  CASE Len(exprs) = 0 -> [str |-> "", panic |-> NoPanic]
    [] Len(exprs) = 1 ->
         IF String(o).panic # NoPanic
           THEN [str |-> "", panic |-> String(o).panic]
           ELSE [str |-> String(o).s \o " (" \o exprs[1] \o ")",
                 panic |-> NoPanic]
    [] OTHER ->
         IF String(o).panic # NoPanic
           THEN [str |-> "", panic |-> String(o).panic]
           ELSE LET rest == Apply(o, Tail(exprs))
                IN  IF rest.panic # NoPanic
                      THEN [str |-> "", panic |-> rest.panic]
                      ELSE [str |-> Sprintf3(String(o).s, exprs[1], rest.str),
                            panic |-> NoPanic]

\* Apply handing all operands to one application of the operator.
ApplyFlat(o, exprs) ==
  CASE Len(exprs) = 0 -> [str |-> "", panic |-> NoPanic]
    [] Len(exprs) = 1 -> [str |-> exprs[1], panic |-> NoPanic]
    [] Len(exprs) = 2 ->
         IF String(o).panic # NoPanic
           THEN [str |-> "", panic |-> String(o).panic]
           ELSE [str |-> Sprintf3(String(o).s, exprs[1], exprs[2]),
                 panic |-> NoPanic]
    [] OTHER ->
         IF String(o).panic # NoPanic
           THEN [str |-> "", panic |-> String(o).panic]
           ELSE LET front == Apply(o, SubSeq(exprs, 1, Len(exprs) - 1))
                IN  [str |-> front.str \o " (" \o exprs[Len(exprs)] \o ")",
                     panic |-> NoPanic]

\* Apply looking the operator name up before it looks at the operands.
ApplyEagerName(o, exprs) ==
  IF String(o).panic # NoPanic
    THEN [str |-> "", panic |-> String(o).panic]
    ELSE CASE Len(exprs) = 0 -> [str |-> "", panic |-> NoPanic]
           [] Len(exprs) = 1 -> [str |-> exprs[1], panic |-> NoPanic]
           [] Len(exprs) = 2 ->
                [str |-> Sprintf3(String(o).s, exprs[1], exprs[2]),
                 panic |-> NoPanic]
           [] OTHER ->
                [str |-> Sprintf3(String(o).s, exprs[1],
                                  Apply(o, Tail(exprs)).str),
                 panic |-> NoPanic]

\* Apply leaving the parentheses around the folded rest away.
ApplyRestUnwrapped(o, exprs) ==
  CASE Len(exprs) = 0 -> [str |-> "", panic |-> NoPanic]
    [] Len(exprs) = 1 -> [str |-> exprs[1], panic |-> NoPanic]
    [] Len(exprs) = 2 ->
         IF String(o).panic # NoPanic
           THEN [str |-> "", panic |-> String(o).panic]
           ELSE [str |-> Sprintf3(String(o).s, exprs[1], exprs[2]),
                 panic |-> NoPanic]
    [] OTHER ->
         IF String(o).panic # NoPanic
           THEN [str |-> "", panic |-> String(o).panic]
           ELSE [str |-> String(o).s \o " (" \o exprs[1] \o ") "
                         \o Apply(o, Tail(exprs)).str,
                 panic |-> NoPanic]

\* Operator.Apply: fold the expressions, first one peeled off, rest recursed.
\* The arguments of Sprintf are evaluated left to right, so the name lookup
\* panics before the recursive call is made.
Apply(o, exprs) ==
  CASE Len(exprs) = 0 -> [str |-> "", panic |-> NoPanic]
    [] Len(exprs) = 1 -> [str |-> exprs[1], panic |-> NoPanic]
    [] Len(exprs) = 2 ->
         IF String(o).panic # NoPanic
           THEN [str |-> "", panic |-> String(o).panic]
           ELSE [str |-> Sprintf3(String(o).s, exprs[1], exprs[2]),
                 panic |-> NoPanic]
    [] OTHER ->
         IF String(o).panic # NoPanic
           THEN [str |-> "", panic |-> String(o).panic]
           ELSE LET rest == Apply(o, Tail(exprs))
                IN  IF rest.panic # NoPanic
                      THEN [str |-> "", panic |-> rest.panic]
                      ELSE [str |-> Sprintf3(String(o).s, exprs[1], rest.str),
                            panic |-> NoPanic]

\* ----------------------------------------------------------------- trees
\* NewLeaf storing the expression as given.
NewLeafBare(expr) == [kind |-> "leaf", expression |-> expr]

\* NewLeaf: the expression is stored wrapped in parentheses.
NewLeaf(expr) == [kind |-> "leaf", expression |-> "(" \o expr \o ")"]

\* NewNode (or the struct literal &Node{op, leaves} of the older version).
NewNode(op, cs) == [kind |-> "node", op |-> op, children |-> cs]

\* Leaf.Combine: the stored expression, never an error.
LeafCombine(l) ==
  [str |-> l.expression, err |-> Nil, panic |-> NoPanic, visited |-> <<l>>]

RECURSIVE Combine(_), CombineChildren(_, _, _, _)
\* Combine taking a node without children for the neutral element.
CombineIdentity(t) ==
  IF t.kind = "leaf" THEN LeafCombine(t)
  ELSE IF Len(t.children) = 0
    THEN [str |-> IF t.op = OperatorAnd THEN "true" ELSE "false",
          err |-> Nil, panic |-> NoPanic, visited |-> <<t>>]
    ELSE LET r == CombineChildren(t.children, 1, <<>>, <<t>>)
         IN  IF r.panic # NoPanic \/ r.err # Nil
               THEN [str |-> "", err |-> r.err, panic |-> r.panic,
                     visited |-> r.visited]
               ELSE LET a == Apply(t.op, r.exprs)
                    IN  [str |-> a.str, err |-> Nil, panic |-> a.panic,
                         visited |-> r.visited]

\* Node.Combine / Leaf.Combine by dynamic dispatch on the Tree interface.
\* visited logs, in call order, every tree Combine was invoked on.
Combine(t) ==
  IF t.kind = "leaf" THEN LeafCombine(t)
  ELSE IF Len(t.children) = 0
    THEN [str |-> "", err |-> ErrEmptyNode, panic |-> NoPanic,
          visited |-> <<t>>]
    ELSE LET r == CombineChildren(t.children, 1, <<>>, <<t>>)
         IN  IF r.panic # NoPanic \/ r.err # Nil
               THEN [str |-> "", err |-> r.err, panic |-> r.panic,
                     visited |-> r.visited]
               ELSE LET a == Apply(t.op, r.exprs)
                    IN  [str |-> a.str, err |-> Nil, panic |-> a.panic,
                         visited |-> r.visited]

\* The loop going on to the next child after a failure, returning the
\* failure once all children are combined.
CombineChildrenAll(cs, i, exprs, vis) ==
  IF i > Len(cs)
    THEN [exprs |-> exprs, err |-> Nil, panic |-> NoPanic, visited |-> vis]
    ELSE LET c == Combine(cs[i])
             r == CombineChildren(cs, i + 1, Append(exprs, c.str),
                                  vis \o c.visited)
         IN  IF c.panic # NoPanic
               THEN [exprs |-> <<>>, err |-> Nil, panic |-> c.panic,
                     visited |-> vis \o c.visited]
             ELSE IF c.err # Nil /\ r.panic = NoPanic
               THEN [exprs |-> <<>>, err |-> c.err, panic |-> NoPanic,
                     visited |-> r.visited]
             ELSE r

\* The loop of Node.Combine over the children from index i on.
CombineChildren(cs, i, exprs, vis) ==
  IF i > Len(cs)
    THEN [exprs |-> exprs, err |-> Nil, panic |-> NoPanic, visited |-> vis]
    ELSE LET c == Combine(cs[i])
         IN  IF c.panic # NoPanic
               THEN [exprs |-> <<>>, err |-> Nil, panic |-> c.panic,
                     visited |-> vis \o c.visited]
             ELSE IF c.err # Nil
               THEN [exprs |-> <<>>, err |-> c.err, panic |-> NoPanic,
                     visited |-> vis \o c.visited]
             ELSE CombineChildren(cs, i + 1, Append(exprs, c.str),
                                  vis \o c.visited)

\* ----------------------------------------------------------------- codec
InvalidRecordError == "invalid record"

\* The operator tag of a record: "leaf" for a leaf, the operator name for a
\* node, and a tag outside the three known ones for any other operator.
OpTag(t) ==
  IF t.kind = "leaf" THEN "leaf"
  ELSE IF t.op = OperatorAnd THEN "and"
  ELSE IF t.op = OperatorOr THEN "or"
  ELSE "unknown"

RECURSIVE Encode(_)
\* encode: one record per tree node.  An absent Nodes list is <<>>, an
\* absent Leaf string is "".
Encode(t) ==
  IF t.kind = "leaf"
    THEN [Op |-> "leaf", Nodes |-> <<>>, Leaf |-> t.expression]
    ELSE [Op |-> OpTag(t),
          Nodes |-> [i \in 1..Len(t.children) |-> Encode(t.children[i])],
          Leaf |-> ""]

\* The placeholder tree of a failed decode.
NoTree == [kind |-> "none"]

RECURSIVE Decode(_), DecodeChildren(_, _, _)
\* decode building the leaf through NewLeaf, which wraps the string again.
DecodeRewrap(rec) ==
  IF rec.Op = "leaf"
    THEN [tree |-> NewLeaf(rec.Leaf), err |-> Nil]
  ELSE IF rec.Op \notin {"and", "or"} \/ Len(rec.Nodes) = 0
    THEN [tree |-> NoTree, err |-> InvalidRecordError]
  ELSE LET r == DecodeChildren(rec.Nodes, 1, <<>>)
       IN  IF r.err # Nil
             THEN [tree |-> NoTree, err |-> r.err]
             ELSE [tree |-> NewNode(IF rec.Op = "and" THEN OperatorAnd
                                                      ELSE OperatorOr,
                                    r.trees),
                   err |-> Nil]

\* decode: a leaf record becomes a Leaf holding the stored string verbatim,
\* an and/or record with children becomes a Node; anything else fails.
Decode(rec) ==
  IF rec.Op = "leaf"
    THEN [tree |-> [kind |-> "leaf", expression |-> rec.Leaf], err |-> Nil]
  ELSE IF rec.Op \notin {"and", "or"} \/ Len(rec.Nodes) = 0
    THEN [tree |-> NoTree, err |-> InvalidRecordError]
  ELSE LET r == DecodeChildren(rec.Nodes, 1, <<>>)
       IN  IF r.err # Nil
             THEN [tree |-> NoTree, err |-> r.err]
             ELSE [tree |-> NewNode(IF rec.Op = "and" THEN OperatorAnd
                                                      ELSE OperatorOr,
                                    r.trees),
                   err |-> Nil]

\* Decode the child records from index i on, stopping at the first failure.
DecodeChildren(recs, i, trees) ==
  IF i > Len(recs) THEN [trees |-> trees, err |-> Nil]
  ELSE LET d == Decode(recs[i])
       IN  IF d.err # Nil THEN [trees |-> <<>>, err |-> d.err]
           ELSE DecodeChildren(recs, i + 1, Append(trees, d.tree))

\* ----------------------------------------------------------------- state
VARIABLES
  built,      \* the trees the caller holds, oldest first; the last is the root
  call,       \* the operation performed last
  ret,        \* what the last Combine call did: str, err, panic, visited
  prev,       \* ret of the Combine call made directly before the last one
  parsed,     \* the texts the last GetTemplate handed to the template parser,
              \* each with the parser's verdict
  tmpl,       \* what the last GetTemplate returned: template text and error
  panicked,   \* the value the process panicked with, NoPanic while running
  record,     \* the record the last Encode produced
  decoded     \* what the last Decode returned: tree and error

vars == <<built, call, ret, prev, parsed, tmpl, panicked, record, decoded>>

NoRet == [str |-> "", err |-> "unset", panic |-> NoPanic, visited |-> <<>>]
NoTmpl == [text |-> "", err |-> "unset"]
NoRecord == [Op |-> "none", Nodes |-> <<>>, Leaf |-> ""]
NoDecoded == [tree |-> NoTree, err |-> "unset"]
\* The error the template parser returns for a text it rejects.
ErrParse == "template: parse error"

RECURSIVE Size(_), SumSizes(_, _)
\* Number of vertices of a tree.
Size(t) == IF t.kind = "leaf" THEN 1 ELSE 1 + SumSizes(t.children, 1)

SumSizes(ts, i) == IF i > Len(ts) THEN 0 ELSE Size(ts[i]) + SumSizes(ts, i + 1)

Min(a, b) == IF a < b THEN a ELSE b

Root == built[Len(built)]

Init ==
  /\ built = <<>>
  /\ call = "none"
  /\ ret = NoRet
  /\ prev = NoRet
  /\ parsed = <<>>
  /\ tmpl = NoTmpl
  /\ panicked = NoPanic
  /\ record = NoRecord
  /\ decoded = NoDecoded

\* The caller builds a leaf.
DoNewLeaf ==
  /\ panicked = NoPanic
  /\ SumSizes(built, 1) < MaxSize
  /\ \E x \in LeafExprs : built' = Append(built, NewLeaf(x))
  /\ call' = "NewLeaf"
  /\ ret' = NoRet /\ prev' = NoRet /\ parsed' = <<>> /\ tmpl' = NoTmpl
  /\ record' = NoRecord /\ decoded' = NoDecoded
  /\ UNCHANGED panicked

\* The caller builds a node over the k trees it built last, in their order.
DoNewNode ==
  /\ panicked = NoPanic
  /\ SumSizes(built, 1) < MaxSize
  /\ \E op \in Operators, k \in 0..Min(Len(built), MaxChildren) :
       built' = Append(SubSeq(built, 1, Len(built) - k),
                       NewNode(op, SubSeq(built, Len(built) - k + 1,
                                          Len(built))))
  /\ call' = "NewNode"
  /\ ret' = NoRet /\ prev' = NoRet /\ parsed' = <<>> /\ tmpl' = NoTmpl
  /\ record' = NoRecord /\ decoded' = NoDecoded
  /\ UNCHANGED panicked

\* The delimiters put around the expression without the spaces.
TemplateTextNoSpaces(e) == "{{" \o e \o "}}"

\* The text Node.GetTemplate hands to the parser for the expression e.
TemplateText(e) == "{{ " \o e \o " }}"

\* Combine consuming the child list of the root while it walks it.
DoCombineDraining ==
  /\ panicked = NoPanic
  /\ Len(built) = 1
  /\ ret' = Combine(Root)
  /\ prev' = IF call = "Combine" THEN ret ELSE NoRet
  /\ panicked' = ret'.panic
  /\ call' = "Combine"
  /\ parsed' = <<>> /\ tmpl' = NoTmpl
  /\ record' = NoRecord /\ decoded' = NoDecoded
  /\ built' = IF Root.kind = "node" /\ Len(Root.children) > 0
                THEN <<NewNode(Root.op, Tail(Root.children))>>
                ELSE built

\* The caller calls Combine on the root; no field of the tree is assigned.
DoCombine ==
  /\ panicked = NoPanic
  /\ Len(built) = 1
  /\ ret' = Combine(Root)
  /\ prev' = IF call = "Combine" THEN ret ELSE NoRet
  /\ panicked' = ret'.panic
  /\ call' = "Combine"
  /\ parsed' = <<>> /\ tmpl' = NoTmpl
  /\ record' = NoRecord /\ decoded' = NoDecoded
  /\ UNCHANGED built

\* Node.GetTemplate on the root node: Combine, then template.Must(Parse(..)).
\* The parser belongs to text/template: it accepts or rejects the text.
DoGetTemplate ==
  /\ panicked = NoPanic
  /\ Len(built) = 1
  /\ Root.kind = "node"
  /\ LET c == Combine(Root)
     IN  /\ ret' = c
         /\ IF c.panic # NoPanic
              THEN parsed' = <<>> /\ tmpl' = NoTmpl /\ panicked' = c.panic
            ELSE IF c.err # Nil
              THEN /\ parsed' = <<>>
                   /\ tmpl' = [text |-> "", err |-> c.err]
                   /\ panicked' = NoPanic
            ELSE \E accepts \in BOOLEAN :
                   /\ parsed' = <<[text |-> TemplateText(c.str),
                                   accepted |-> accepts]>>
                   /\ IF accepts
                        THEN /\ tmpl' = [text |-> TemplateText(c.str),
                                         err |-> Nil]
                             /\ panicked' = NoPanic
                        ELSE /\ tmpl' = NoTmpl
                             /\ panicked' = ErrParse
  /\ call' = "GetTemplate"
  /\ prev' = NoRet
  /\ record' = NoRecord /\ decoded' = NoDecoded
  /\ UNCHANGED built

\* The caller encodes the root into a record.
DoEncode ==
  /\ panicked = NoPanic
  /\ Len(built) = 1
  /\ record' = Encode(Root)
  /\ call' = "Encode"
  /\ ret' = NoRet /\ prev' = NoRet /\ parsed' = <<>> /\ tmpl' = NoTmpl
  /\ decoded' = NoDecoded
  /\ UNCHANGED <<built, panicked>>

\* The caller decodes the record of the root into a fresh tree.
DoDecode ==
  /\ panicked = NoPanic
  /\ call = "Encode"
  /\ decoded' = Decode(record)
  /\ call' = "Decode"
  /\ UNCHANGED <<built, ret, prev, parsed, tmpl, panicked, record>>

Next ==
  \/ DoNewLeaf
  \/ DoNewNode
  \/ DoCombine
  \/ DoGetTemplate
  \/ DoEncode
  \/ DoDecode

Spec == Init /\ [][Next]_vars

\* ------------------------------------------------- wide, shallow trees
\* Largest number of children of the root in the wide specification.
MaxWide == 5

\* The subtrees a wide root is built over.
WideChildren ==
  { NewLeaf(""), NewLeaf("a"),
    NewNode(OperatorOr, <<NewLeaf("a"), NewLeaf("")>>),
    NewNode(OperatorAnd, <<>>) }

\* The caller has built one node over up to MaxWide of these subtrees.
InitWide ==
  /\ \E op \in Operators, n \in 0..MaxWide :
       \E cs \in [1..n -> WideChildren] : built = <<NewNode(op, cs)>>
  /\ call = "NewNode"
  /\ ret = NoRet
  /\ prev = NoRet
  /\ parsed = <<>>
  /\ tmpl = NoTmpl
  /\ panicked = NoPanic
  /\ record = NoRecord
  /\ decoded = NoDecoded

NextWide ==
  \/ DoCombine
  \/ DoGetTemplate
  \/ DoEncode
  \/ DoDecode

SpecWide == InitWide /\ [][NextWide]_vars

\* ------------------------------------------------------------ properties
\* The lowercase operator name the specification calls opname.
opname(op) == IF op = OperatorAnd THEN "and" ELSE "or"

\* The root is a node with operator AND or OR.
RootIsAndOr == Root.kind = "node" /\ Root.op \in {OperatorAnd, OperatorOr}

\* The i-th child of the root combines successfully.
ChildOk(i) ==
  /\ Combine(Root.children[i]).err = Nil
  /\ Combine(Root.children[i]).panic = NoPanic

\* The expression the i-th child of the root combines to.
ChildExpr(i) == Combine(Root.children[i]).str

AllChildrenOk == \A i \in 1..Len(Root.children) : ChildOk(i)

\* Combine has just returned on the root, Combine has just returned (s, nil).
Returned(s) ==
  call = "Combine" /\ ret.panic = NoPanic /\ ret.err = Nil /\ ret.str = s

\* C1: right-fold law.  Combine on an AND/OR node with more than two
\* children that all combine successfully returns the operator name, the
\* first child's expression in parentheses, and in parentheses Apply of the
\* operator to the expressions of the remaining children.
C1_RightFold ==
  (/\ call = "Combine"
   /\ RootIsAndOr
   /\ Len(Root.children) > 2
   /\ AllChildrenOk)
  => Returned(opname(Root.op) \o " (" \o ChildExpr(1) \o ") ("
              \o Apply(Root.op, [i \in 1..(Len(Root.children) - 1)
                                   |-> ChildExpr(i + 1)]).str
              \o ")")

\* A node of five children, the third of them a node, has been combined.
C1_Witness ==
  /\ call = "Combine"
  /\ RootIsAndOr
  /\ Len(Root.children) = 5
  /\ AllChildrenOk
  /\ Root.children[3].kind = "node"
  /\ Root.children[1] # Root.children[2]
  /\ ret.err = Nil

\* C2: Combine on an AND/OR node with exactly two children that combine
\* successfully to e0 and e1 returns opname (e0) (e1), children in order.
C2_TwoChildren ==
  (/\ call = "Combine"
   /\ RootIsAndOr
   /\ Len(Root.children) = 2
   /\ AllChildrenOk)
  => Returned(opname(Root.op) \o " (" \o ChildExpr(1) \o ") ("
              \o ChildExpr(2) \o ")")

\* An OR node over two children with different expressions has been combined.
C2_Witness ==
  /\ call = "Combine"
  /\ Root.kind = "node" /\ Root.op = OperatorOr
  /\ Len(Root.children) = 2
  /\ AllChildrenOk
  /\ ChildExpr(1) # ChildExpr(2)
  /\ ret.str = "or (" \o ChildExpr(1) \o ") (" \o ChildExpr(2) \o ")"

\* C3: Combine on a node of any operator with exactly one child that
\* combines successfully returns the child's expression unchanged.
C3_OneChild ==
  (/\ call = "Combine"
   /\ Root.kind = "node"
   /\ Len(Root.children) = 1
   /\ AllChildrenOk)
  => Returned(ChildExpr(1))

\* A node over one child that is itself a node has been combined.
C3_Witness ==
  /\ call = "Combine"
  /\ Root.kind = "node"
  /\ Len(Root.children) = 1
  /\ Root.children[1].kind = "node"
  /\ AllChildrenOk
  /\ ret.str = ChildExpr(1)

\* C4: Combine on NewLeaf(x) returns "(" + x + ")" and no error, for every
\* input string x.
C4_LeafCombine ==
  \A x \in LeafExprs :
    (call = "Combine" /\ Root = NewLeaf(x)) => Returned("(" \o x \o ")")

\* The leaf built from the empty string has been combined.
C4_Witness == call = "Combine" /\ Root = NewLeaf("") /\ ret.str = "()"

\* C5: Combine on a node with zero children returns the empty string and
\* ErrEmptyNode, whatever the operator.
C5_EmptyNode ==
  (call = "Combine" /\ Root.kind = "node" /\ Len(Root.children) = 0)
  => (ret.str = "" /\ ret.err = ErrEmptyNode /\ ret.panic = NoPanic)

\* An OR node without children has been combined.
C5_Witness ==
  /\ call = "Combine"
  /\ Root.kind = "node" /\ Root.op = OperatorOr
  /\ Len(Root.children) = 0
  /\ ret.err = ErrEmptyNode

RECURSIVE HasEmpty(_)
\* The tree holds, at any depth, a node without children.
HasEmpty(t) ==
  /\ t.kind = "node"
  /\ \/ Len(t.children) = 0
     \/ \E i \in 1..Len(t.children) : HasEmpty(t.children[i])

RECURSIVE NoAbortingNode(_)
\* Every node of the tree with two or more children has operator AND or OR.
NoAbortingNode(t) ==
  t.kind = "node" =>
    /\ Len(t.children) >= 2 => t.op \in {OperatorAnd, OperatorOr}
    /\ \A i \in 1..Len(t.children) : NoAbortingNode(t.children[i])

RECURSIVE PreOrder(_), PreOrderAll(_, _)
\* The subtrees of a tree, each before its children, children in order.
PreOrder(t) ==
  IF t.kind = "leaf" THEN <<t>> ELSE <<t>> \o PreOrderAll(t.children, 1)

PreOrderAll(ts, i) ==
  IF i > Len(ts) THEN <<>> ELSE PreOrder(ts[i]) \o PreOrderAll(ts, i + 1)

\* The subtrees up to and including the first node without children.
UpToFirstEmpty(ts) ==
  LET first == CHOOSE i \in 1..Len(ts) :
                 /\ ts[i].kind = "node" /\ Len(ts[i].children) = 0
                 /\ \A j \in 1..(i - 1) :
                      ~(ts[j].kind = "node" /\ Len(ts[j].children) = 0)
  IN  SubSeq(ts, 1, first)

\* Combine returned ("", ErrEmptyNode) and was invoked on the subtrees up to
\* the first node without children and on no subtree after it.
FailedAtFirstEmpty ==
  /\ ret.str = "" /\ ret.err = ErrEmptyNode /\ ret.panic = NoPanic
  /\ ret.visited = UpToFirstEmpty(PreOrder(Root))

RECURSIVE ValidTree(_)
\* Leaves and nested AND/OR nodes with at least one child each.
ValidTree(t) ==
  t.kind = "node" =>
    /\ t.op \in {OperatorAnd, OperatorOr}
    /\ Len(t.children) >= 1
    /\ \A i \in 1..Len(t.children) : ValidTree(t.children[i])

\* C8: round trip.  Decoding the record of a tree of leaves and AND/OR nodes
\* with at least one child each gives a tree equal to the encoded one, and
\* with the same Combine result.
C8_RoundTrip ==
  (call = "Decode" /\ ValidTree(Root))
  => /\ decoded.err = Nil
     /\ decoded.tree = Root
     /\ Combine(decoded.tree).str = Combine(Root).str
     /\ Combine(decoded.tree).err = Combine(Root).err

\* The record of a nested tree over two different leaves has been decoded.
C8_Witness ==
  /\ call = "Decode"
  /\ ValidTree(Root)
  /\ Root.kind = "node" /\ Len(Root.children) = 2
  /\ Root.children[1].kind = "node"
  /\ Root.children[2] = NewLeaf("")
  /\ Root.children[1].children[1] = NewLeaf("a")
  /\ decoded.tree = Root

\* C9: when Combine on the root fails, GetTemplate returns that error and no
\* template and hands nothing to the parser; when Combine returns e, the
\* text handed to the parser is "{{ " + e + " }}".
C9_GetTemplate ==
  call = "GetTemplate" =>
    /\ Combine(Root).err # Nil
         => /\ Combine(Root).err = ErrEmptyNode
            /\ tmpl = [text |-> "", err |-> ErrEmptyNode]
            /\ parsed = <<>>
            /\ panicked = NoPanic
    /\ Combine(Root).err = Nil /\ Combine(Root).panic = NoPanic
         => /\ Len(parsed) = 1
            /\ parsed[1].text = "{{ " \o Combine(Root).str \o " }}"

\* GetTemplate has handed the text of a two-leaf AND node to the parser.
C9_Witness ==
  /\ call = "GetTemplate"
  /\ parsed = <<[text |-> "{{ and ((a)) (()) }}", accepted |-> TRUE]>>
  /\ tmpl.err = Nil

\* GetTemplate has returned ErrEmptyNode for a root with an empty node below.
C9_WitnessFail ==
  /\ call = "GetTemplate"
  /\ Len(Root.children) = 2
  /\ tmpl.err = ErrEmptyNode
  /\ parsed = <<>>

\* C10 as stated: when the parser rejects the text of a successful Combine,
\* GetTemplate returns the parse error to its caller; the process does not
\* abort.
C10_ParseErrorReturned ==
  (call = "GetTemplate" /\ Len(parsed) = 1 /\ ~parsed[1].accepted)
  => (panicked = NoPanic /\ tmpl.err = ErrParse)

\* The root is a node whose operator is neither AND nor OR.
RootIsUnknownOp ==
  Root.kind = "node" /\ Root.op \notin {OperatorAnd, OperatorOr}

\* C11: an operator outside {AND, OR} is never given a default name.  A
\* Combine that needs the name of such an operator aborts in the name
\* lookup, and a Combine that returns a string has named only AND and OR
\* nodes: each node with two or more children in its tree is AND or OR.
C11_NoDefaultOperator ==
  call = "Combine" =>
    /\ (RootIsUnknownOp /\ Len(Root.children) >= 2 /\ AllChildrenOk)
         => /\ ret.panic = PanicInvalidOperator
            /\ panicked = PanicInvalidOperator
    /\ (ret.panic = NoPanic /\ ret.err = Nil) => NoAbortingNode(Root)

\* Combine aborted on a node of an unknown operator over two leaves.
C11_Witness ==
  /\ call = "Combine"
  /\ RootIsUnknownOp
  /\ Root.children = <<NewLeaf("a"), NewLeaf("")>>
  /\ ret.panic = PanicInvalidOperator
  /\ panicked = PanicInvalidOperator

\* An AND/OR root over exactly three children that all combine has been
\* combined.
ThreeCombined ==
  /\ call = "Combine"
  /\ RootIsAndOr
  /\ Len(Root.children) = 3
  /\ AllChildrenOk

\* C12 as stated: for three children combining to e0, e1, e2 the operator
\* groups e0 with e1 first and is then applied to that group and e2.
C12_LeftAssociative ==
  ThreeCombined
  => Returned(opname(Root.op) \o " ("
              \o opname(Root.op) \o " (" \o ChildExpr(1) \o ") ("
              \o ChildExpr(2) \o ")"
              \o ") (" \o ChildExpr(3) \o ")")

\* C12 amended: the rule is right-associative.  For three children combining
\* to e0, e1, e2 the operator groups e1 with e2 first and is then applied to
\* e0 and that group.
C12_RightAssociative ==
  ThreeCombined
  => Returned(opname(Root.op) \o " (" \o ChildExpr(1) \o ") ("
              \o opname(Root.op) \o " (" \o ChildExpr(2) \o ") ("
              \o ChildExpr(3) \o ")"
              \o ")")

\* An OR node over a leaf, a node and another leaf has been combined.
C12_Witness ==
  /\ ThreeCombined
  /\ Root.op = OperatorOr
  /\ Root.children[1] = NewLeaf("a")
  /\ Root.children[2].kind = "node"
  /\ Root.children[3] = NewLeaf("")
  /\ ret.str = "or ((a)) (or (or ((a)) (())) (()))"

\* C13: Combine looks at the operator only for two or more children.  On a
\* node whose operator is neither AND nor OR it returns ErrEmptyNode for no
\* children, returns the child's string for one child that combines, and
\* aborts in the name lookup only for two or more children that combine.
C13_OperatorLookedUpLate ==
  (call = "Combine" /\ RootIsUnknownOp) =>
    /\ Len(Root.children) = 0
         => (ret.str = "" /\ ret.err = ErrEmptyNode /\ ret.panic = NoPanic
             /\ panicked = NoPanic)
    /\ (Len(Root.children) = 1 /\ AllChildrenOk)
         => (Returned(ChildExpr(1)) /\ panicked = NoPanic)
    /\ (Len(Root.children) >= 2 /\ AllChildrenOk)
         => ret.panic = PanicInvalidOperator
    /\ (ret.panic # NoPanic /\ AllChildrenOk) => Len(Root.children) >= 2

\* A node of an unknown operator over one leaf has been combined.
C13_Witness ==
  /\ call = "Combine"
  /\ RootIsUnknownOp
  /\ Root.children = <<NewLeaf("a")>>
  /\ ret = [str |-> "(a)", err |-> Nil, panic |-> NoPanic,
            visited |-> <<Root, NewLeaf("a")>>]
  /\ panicked = NoPanic

\* The root with all children but the first put under a node of the same
\* operator.
RightNested ==
  NewNode(Root.op, <<Root.children[1], NewNode(Root.op, Tail(Root.children))>>)

\* The root with its first two children put under a node of the same
\* operator.
LeftNested ==
  NewNode(Root.op, <<NewNode(Root.op, SubSeq(Root.children, 1, 2))>>
                   \o SubSeq(Root.children, 3, Len(Root.children)))

\* C14: nesting to the right under the same operator does not show.  An
\* AND/OR node over three or more children that combine returns the string
\* of the different tree that holds the first child and a node over the
\* others; the tree of three children nested to the left gives another
\* string.
C14_RightNestingInvisible ==
  (/\ call = "Combine"
   /\ RootIsAndOr
   /\ Len(Root.children) >= 3
   /\ AllChildrenOk)
  => /\ RightNested # Root
     /\ Combine(RightNested).err = Nil
     /\ Combine(RightNested).panic = NoPanic
     /\ Returned(Combine(RightNested).str)
     /\ Len(Root.children) = 3 => Combine(LeftNested).str # ret.str

\* An AND node over four children has been combined to the string of its
\* right-nested variant.
C14_Witness ==
  /\ call = "Combine"
  /\ Root.kind = "node" /\ Root.op = OperatorAnd
  /\ Len(Root.children) = 4
  /\ AllChildrenOk
  /\ Root.children[1] # Root.children[4]
  /\ RightNested # Root
  /\ ret.str = Combine(RightNested).str

====
